---- MODULE Spec2Model ----
(***************************************************************************)
(* Model of agentos-railway/agents/whatsapp_agent.py: the tool             *)
(* generate_code_and_create_repo and its helpers _github_headers,          *)
(* _slugify, _generate_files_from_spec and _create_repo_and_upload_files.  *)
(*                                                                         *)
(* One invocation of the tool is a sequential run: resolve the arguments,  *)
(* one chat-completion call, one create-repository POST, one contents PUT  *)
(* per generated file, return.  Each blocking call is one step of the      *)
(* model whose response (the completion's content, the HTTP status) is an  *)
(* input of the step.  Text is a sequence of one-character strings, an     *)
(* Optional[str] is Absent or Some(text).  Every raise in the source is a  *)
(* ValueError; the model names each raise site by the error it stands for. *)
(* The description, private and default_branch arguments only travel into  *)
(* the request bodies and are left out.                                    *)
(***************************************************************************)
EXTENDS Integers, Sequences, FiniteSets, TLC

VARIABLES
    env,           \* the process environment: variable name -> Optional[str]
    pc,            \* position of the invocation
    spec,          \* argument spec
    nameArg,       \* argument name, as the caller gave it
    orgArg,        \* argument organization, as the caller gave it
    name,          \* local name after lines 154-155
    organization,  \* local organization after lines 159-160
    completion,    \* what the Completion Service answered
    files,         \* the generated mapping's keys, in insertion order
    idx,           \* position of the for loop of line 69 in files
    calls,         \* the service calls issued so far, in order
    repoCreated,   \* the hosting service holds the new repository
    repoFiles,     \* the paths the hosting service stored, in order
    outcome        \* what the invocation returned or raised

vars == <<env, pc, spec, nameArg, orgArg, name, organization, completion,
          files, idx, calls, repoCreated, repoFiles, outcome>>

----------------------------------------------------------------------------
(* Bounds of the model *)

MaxTextLen == 3
MaxNameLen == 2
MaxFiles == 2

----------------------------------------------------------------------------
(* Optional values and Python truthiness *)

Absent == [some |-> FALSE]
Some(v) == [some |-> TRUE, val |-> v]

\* bool(x) of an Optional[str]: None and "" are falsy
Truthy(o) == o.some /\ o.val # <<>>

\* a or b
PyOr(a, b) == IF Truthy(a) THEN a ELSE b

\* x or None
OrNone(o) == IF Truthy(o) THEN o ELSE Absent

RECURSIVE Contains(_, _)
Contains(s, c) ==
    IF s = <<>> THEN FALSE
    ELSE IF Head(s) = c THEN TRUE ELSE Contains(Tail(s), c)

RECURSIVE Count(_, _)
Count(s, kind) ==
    IF s = <<>> THEN 0
    ELSE (IF Head(s).kind = kind THEN 1 ELSE 0) + Count(Tail(s), kind)

Strings(alphabet, n) == UNION {[1..k -> alphabet] : k \in 0..n}

----------------------------------------------------------------------------
(* _github_headers, lines 23-31 *)

\* token = getenv("GITHUB_ACCESS_TOKEN") or getenv("GITHUB_TOKEN")
GithubToken(e) == PyOr(e["GITHUB_ACCESS_TOKEN"], e["GITHUB_TOKEN"])

----------------------------------------------------------------------------
(* _slugify, lines 34-36 *)

\* the whitespace and the members of [a-zA-Z0-9] among the input characters
Whitespace == {" "}
Alnum == {"a", "b", "A", "B", "0", "1"}

ToLower(c) == CASE c = "A" -> "a" [] c = "B" -> "b" [] OTHER -> c

Lower(s) == [i \in 1..Len(s) |-> ToLower(s[i])]

RECURSIVE LStrip(_, _)
LStrip(s, set) ==
    IF s # <<>> /\ Head(s) \in set THEN LStrip(Tail(s), set) ELSE s

RECURSIVE RStrip(_, _)
RStrip(s, set) ==
    IF s # <<>> /\ s[Len(s)] \in set THEN RStrip(SubSeq(s, 1, Len(s) - 1), set)
    ELSE s

Strip(s, set) == RStrip(LStrip(s, set), set)

RECURSIVE SkipNonAlnum(_)
SkipNonAlnum(s) ==
    IF s # <<>> /\ Head(s) \notin Alnum THEN SkipNonAlnum(Tail(s)) ELSE s

\* re.sub(r"[^a-zA-Z0-9]+", "-", s)
RECURSIVE ReSub(_)
ReSub(s) ==
    IF s = <<>> THEN <<>>
    ELSE IF Head(s) \in Alnum THEN <<Head(s)>> \o ReSub(Tail(s))
    ELSE <<"-">> \o ReSub(SkipNonAlnum(Tail(s)))

Slug(text) == Strip(ReSub(Lower(Strip(text, Whitespace))), {"-"})

\* f"whatsapp-app-{now}", now the clock already formatted %Y%m%d-%H%M%S
Fallback(now) ==
    <<"w", "h", "a", "t", "s", "a", "p", "p", "-", "a", "p", "p", "-">> \o now

SlugifyNoFallback(text, now) == Slug(text)

Slugify(text, now) == IF Slug(text) # <<>> THEN Slug(text) ELSE Fallback(now)

----------------------------------------------------------------------------
(* generate_code_and_create_repo, lines 154-160 *)

\* if not name: name = _slugify(spec)
ResolveName(n, s, now) == IF ~Truthy(n) THEN Slugify(s, now) ELSE n.val

NameRejectedLeading(n) == n # <<>> /\ Head(n) = "/"

\* "/" in name
NameRejected(n) == Contains(n, "/")

\* if not organization: organization = getenv("GITHUB_ORG") or None
ResolveOrganization(o, e) == IF ~Truthy(o) THEN OrNone(e["GITHUB_ORG"]) ELSE o

----------------------------------------------------------------------------
(* _generate_files_from_spec, lines 102-119 *)

(* A completion is [content, parses, type, entries]: whether the message   *)
(* has content at all, whether that content is JSON, and the JSON type and *)
(* the entries of its "files" member ("missing" when it has none).         *)

\* response.choices[0].message.content or "{}": an absent content is read as
\* the empty object
Content(resp) ==
    IF resp.content THEN resp
    ELSE [content |-> TRUE, parses |-> TRUE, type |-> "missing", entries |-> <<>>]

\* data.get("files") or {}: the value the check of line 116 looks at
FilesValue(resp) ==
    IF Content(resp).type \in {"missing", "null"} \/ Content(resp).entries = <<>>
    THEN [type |-> "object", entries |-> <<>>]
    ELSE [type |-> Content(resp).type, entries |-> Content(resp).entries]

GenerationRejectedTypeOnly(resp) ==
    \/ ~Content(resp).parses
    \/ FilesValue(resp).type # "object"

\* json.loads raises, or: not isinstance(files, dict) or not files
GenerationRejected(resp) ==
    \/ ~Content(resp).parses
    \/ FilesValue(resp).type # "object"
    \/ FilesValue(resp).entries = <<>>

----------------------------------------------------------------------------
(* _create_repo_and_upload_files, lines 47-88 *)

\* lines 56-59
CreateUrl(org) ==
    IF Truthy(org) THEN [scope |-> "orgs", org |-> org.val]
    ELSE [scope |-> "user", org |-> <<>>]

\* line 62: status_code in (201, 202)
CreateOk(status) == status \in {201, 202}

PutOkAny(status) == TRUE

\* line 80: status_code in (200, 201)
PutOk(status) == status \in {200, 201}

\* path.split("/")
RECURSIVE Split(_)
Split(p) ==
    IF ~Contains(p, "/") THEN <<p>>
    ELSE LET i == CHOOSE j \in 1..Len(p) :
                     p[j] = "/" /\ \A k \in 1..(j - 1) : p[k] # "/"
         IN  <<SubSeq(p, 1, i - 1)>> \o Split(SubSeq(p, i + 1, Len(p)))

InvalidPathNoParentCheck(p) == p = <<>> \/ Head(p) = "/"

\* line 70: not path or path.startswith("/") or ".." in path.split("/")
InvalidPath(p) ==
    \/ p = <<>>
    \/ Head(p) = "/"
    \/ \E i \in 1..Len(Split(p)) : Split(p)[i] = <<".", ".">>

PathAtReversed(fs, i) == fs[Len(fs) + 1 - i]

\* line 69: the i-th key of files.items()
PathAt(fs, i) == fs[i]

----------------------------------------------------------------------------
(* Inputs *)

None == [kind |-> "none"]
Raise(kind, detail) == [kind |-> kind, detail |-> detail]

EnvNames == {"GITHUB_ACCESS_TOKEN", "GITHUB_TOKEN", "GITHUB_ORG"}
EnvValues == {Absent, Some(<<>>), Some(<<"v">>)}
Environments == [EnvNames -> EnvValues]

\* datetime.utcnow().strftime('%Y%m%d-%H%M%S')
Clock ==
    {<<"2", "0", "2", "6", "0", "1", "0", "1", "-", "0", "0", "0", "0", "0", "0">>,
     <<"2", "0", "2", "6", "0", "1", "0", "1", "-", "0", "0", "0", "0", "0", "1">>}

Statuses == {200, 201, 202, 422}

TextChars == {"A", "b", " ", "/"}
Texts == Strings(TextChars, MaxTextLen)
Names == {Absent} \cup {Some(n) : n \in Strings(TextChars, MaxNameLen)}
Organizations == {Absent, Some(<<>>), Some(<<"o">>)}

Paths ==
    {<<>>, <<"/", "a">>, <<".", ".">>, <<"a", "/", ".", ".">>,
     <<"a">>, <<"a", ".", ".">>, <<"a", "/", "b">>}

\* the keys of a JSON object are distinct
Mappings(paths, n) ==
    {m \in Strings(paths, n) : \A i, j \in 1..Len(m) : i # j => m[i] # m[j]}

Completions(paths, n) ==
    {[content |-> FALSE, parses |-> FALSE, type |-> "missing", entries |-> <<>>],
     [content |-> TRUE, parses |-> FALSE, type |-> "missing", entries |-> <<>>],
     [content |-> TRUE, parses |-> TRUE, type |-> "missing", entries |-> <<>>],
     [content |-> TRUE, parses |-> TRUE, type |-> "null", entries |-> <<>>],
     [content |-> TRUE, parses |-> TRUE, type |-> "list", entries |-> <<>>],
     [content |-> TRUE, parses |-> TRUE, type |-> "list", entries |-> <<<<"a">>>>]}
    \cup {[content |-> TRUE, parses |-> TRUE, type |-> "object", entries |-> m] :
             m \in Mappings(paths, n)}

----------------------------------------------------------------------------
(* The invocation *)

InitIn(environments) ==
    /\ env \in environments
    /\ pc = "idle"
    /\ spec = <<>>
    /\ nameArg = Absent
    /\ orgArg = Absent
    /\ name = <<>>
    /\ organization = Absent
    /\ completion = Absent
    /\ files = <<>>
    /\ idx = 0
    /\ calls = <<>>
    /\ repoCreated = FALSE
    /\ repoFiles = <<>>
    /\ outcome = None

\* lines 154-160: the arguments are bound, name and organization resolved,
\* and a name with a separator is refused
Invoke(s, n, o, now) ==
    /\ pc = "idle"
    /\ spec' = s
    /\ nameArg' = n
    /\ orgArg' = o
    /\ name' = ResolveName(n, s, now)
    /\ IF NameRejected(name')
       THEN /\ outcome' = Raise("InvalidArgument", name')
            /\ pc' = "done"
            /\ UNCHANGED organization
       ELSE /\ organization' = ResolveOrganization(o, env)
            /\ pc' = "generate"
            /\ UNCHANGED outcome
    /\ UNCHANGED <<env, completion, files, idx, calls, repoCreated, repoFiles>>

\* line 161, _generate_files_from_spec: the chat-completion call and the
\* check of what it answered
GenerateFiles(resp) ==
    /\ pc = "generate"
    /\ calls' = Append(calls, [kind |-> "completion", name |-> name, spec |-> spec])
    /\ completion' = Some(resp)
    /\ IF GenerationRejected(resp)
       THEN /\ outcome' = Raise("GenerationFailed", <<>>)
            /\ pc' = "done"
            /\ UNCHANGED files
       ELSE /\ files' = FilesValue(resp).entries
            /\ pc' = "create"
            /\ UNCHANGED outcome
    /\ UNCHANGED <<env, spec, nameArg, orgArg, name, organization, idx,
                   repoCreated, repoFiles>>

\* lines 47-67: the headers (the token), then the create-repository POST
CreateRepo(status) ==
    /\ pc = "create"
    /\ IF ~Truthy(GithubToken(env))
       THEN /\ outcome' = Raise("MissingCredential", <<>>)
            /\ pc' = "done"
            /\ UNCHANGED <<calls, repoCreated, idx>>
       ELSE /\ calls' = Append(calls, [kind |-> "create",
                                        url |-> CreateUrl(organization),
                                        name |-> name, status |-> status])
            /\ IF ~CreateOk(status)
               THEN /\ outcome' = Raise("RepositoryCreationFailed", status)
                    /\ pc' = "done"
                    /\ UNCHANGED <<repoCreated, idx>>
               ELSE /\ repoCreated' = TRUE
                    /\ idx' = 1
                    /\ pc' = "upload"
                    /\ UNCHANGED outcome
    /\ UNCHANGED <<env, spec, nameArg, orgArg, name, organization, completion,
                   files, repoFiles>>

\* lines 69-81, one turn of the loop: the path is checked, then PUT
UploadFile(status) ==
    /\ pc = "upload"
    /\ idx <= Len(files)
    /\ LET path == PathAt(files, idx) IN
       IF InvalidPath(path)
       THEN /\ outcome' = Raise("InvalidArgument", path)
            /\ pc' = "done"
            /\ UNCHANGED <<calls, repoFiles, idx>>
       ELSE /\ calls' = Append(calls, [kind |-> "put", path |-> path,
                                        status |-> status])
            /\ IF ~PutOk(status)
               THEN /\ outcome' = Raise("FileUploadFailed", path)
                    /\ pc' = "done"
                    /\ UNCHANGED <<repoFiles, idx>>
               ELSE /\ repoFiles' = Append(repoFiles, path)
                    /\ idx' = idx + 1
                    /\ UNCHANGED <<pc, outcome>>
    /\ UNCHANGED <<env, spec, nameArg, orgArg, name, organization, completion,
                   files, repoCreated>>

\* the return of line 88 indented into the loop body: taken after the first
\* upload
ReturnInsideLoop ==
    /\ pc = "upload"
    /\ (idx > 1 \/ idx > Len(files))
    /\ outcome' = [kind |-> "Result", detail |-> name]
    /\ pc' = "done"
    /\ UNCHANGED <<env, spec, nameArg, orgArg, name, organization, completion,
                   files, idx, calls, repoCreated, repoFiles>>

\* lines 83-88: the loop is over, the result is returned
Return ==
    /\ pc = "upload"
    /\ idx > Len(files)
    /\ outcome' = [kind |-> "Result", detail |-> name]
    /\ pc' = "done"
    /\ UNCHANGED <<env, spec, nameArg, orgArg, name, organization, completion,
                   files, idx, calls, repoCreated, repoFiles>>

----------------------------------------------------------------------------
(* Spec: every environment and every generated mapping, a few names *)

FlowTexts == {<<>>, <<"A", " ", "b">>}
FlowNames == {Absent, Some(<<"r">>), Some(<<"a", "/", "b">>)}

Init == InitIn(Environments)

Next ==
    \/ /\ pc = "idle"
       /\ \E s \in FlowTexts, n \in FlowNames, o \in Organizations, now \in Clock :
             Invoke(s, n, o, now)
    \/ /\ pc = "generate"
       /\ \E resp \in Completions(Paths, MaxFiles) : GenerateFiles(resp)
    \/ \E status \in Statuses : CreateRepo(status)
    \/ \E status \in Statuses : UploadFile(status)
    \/ Return

Spec == Init /\ [][Next]_vars

----------------------------------------------------------------------------
(* SpecNames: every spec text and every name, one environment and mapping *)

NamesEnvironments ==
    {[v \in EnvNames |-> IF v = "GITHUB_ACCESS_TOKEN" THEN Some(<<"v">>) ELSE Absent]}

InitNames == InitIn(NamesEnvironments)

NextNames ==
    \/ /\ pc = "idle"
       /\ \E s \in Texts, n \in Names, o \in {Absent}, now \in Clock :
             Invoke(s, n, o, now)
    \/ /\ pc = "generate"
       /\ \E resp \in Completions({<<"a">>}, 1) : GenerateFiles(resp)
    \/ \E status \in Statuses : CreateRepo(status)
    \/ \E status \in Statuses : UploadFile(status)
    \/ Return

SpecNames == InitNames /\ [][NextNames]_vars

----------------------------------------------------------------------------
(* Vocabulary of the properties, stated without the definitions above *)

HasSeparator(s) == \E i \in 1..Len(s) : s[i] = "/"

\* ".." stands at i as a whole segment of p
ParentSegmentAt(p, i) ==
    /\ i + 1 <= Len(p)
    /\ p[i] = "." /\ p[i + 1] = "."
    /\ (i = 1 \/ p[i - 1] = "/")
    /\ (i + 1 = Len(p) \/ p[i + 2] = "/")

\* empty, starting with "/", or having a ".." segment
BadPath(p) ==
    \/ Len(p) = 0
    \/ p[1] = "/"
    \/ \E i \in 1..Len(p) : ParentSegmentAt(p, i)

PutCalls == SelectSeq(calls, LAMBDA c : c.kind = "put")
PutPaths == [i \in 1..Len(PutCalls) |-> PutCalls[i].path]
HostingCalls == SelectSeq(calls, LAMBDA c : c.kind \in {"create", "put"})

\* the completion cannot be parsed, or its file mapping is missing, not an
\* object, or empty
UnusableCompletion(r) ==
    \/ ~r.content
    \/ ~r.parses
    \/ r.type # "object"
    \/ Len(r.entries) = 0

CallSucceeded(c) ==
    CASE c.kind = "completion" -> completion.some /\ ~UnusableCompletion(completion.val)
      [] c.kind = "create" -> c.status = 201 \/ c.status = 202
      [] c.kind = "put" -> c.status = 200 \/ c.status = 201
      [] OTHER -> FALSE

NoCredentialSet ==
    ~env["GITHUB_ACCESS_TOKEN"].some /\ ~env["GITHUB_TOKEN"].some

\* the invocation raised for a generated path (not for the name: that raise
\* precedes the completion)
BadPathFailure == outcome.kind = "InvalidArgument" /\ completion.some

NoAlnum(s) == \A i \in 1..Len(s) : s[i] \notin Alnum

----------------------------------------------------------------------------
(* Properties *)

\* C1: a mapping with an invalid path, at whatever position, makes the
\* invocation fail with InvalidArgument with no file-upload call issued: the
\* repository exists with no file uploaded (stated for the runs in which no
\* service call fails).
C1_InvalidPathMeansNoUpload ==
    (/\ pc = "done"
     /\ repoCreated
     /\ \E i \in 1..Len(files) : BadPath(files[i])
     /\ \A i \in 1..Len(calls) : CallSucceeded(calls[i]))
        => (outcome.kind = "InvalidArgument" /\ Len(PutCalls) = 0 /\ repoFiles = <<>>)

\* C2: with neither credential variable set the invocation fails with
\* MissingCredential before any network call, the completion call included.
C2_MissingCredentialBeforeAnyCall ==
    (NoCredentialSet /\ outcome.kind = "MissingCredential") => calls = <<>>

C4_SeparatorNameRejected ==
    (pc # "idle" /\ nameArg.some /\ HasSeparator(nameArg.val))
        => (pc = "done" /\ outcome.kind = "InvalidArgument" /\ calls = <<>>)

C4_Witness ==
    /\ pc = "done"
    /\ nameArg = Some(<<"A", "/">>)
    /\ outcome.kind = "InvalidArgument"

\* C5: an unparseable completion, or one whose file mapping is missing, not an
\* object or empty, makes the invocation fail with GenerationFailed with no
\* create-repository and no file-upload call.
C5_UnusableCompletionCreatesNothing ==
    (completion.some /\ UnusableCompletion(completion.val))
        => /\ pc = "done"
           /\ outcome.kind = "GenerationFailed"
           /\ Len(HostingCalls) = 0
           /\ ~repoCreated

C5_Witness ==
    /\ completion.some
    /\ completion.val.type = "object"
    /\ completion.val.parses
    /\ completion.val.entries = <<>>
    /\ outcome.kind = "GenerationFailed"

\* C6: every call but the last one issued has completed successfully, and a
\* failed call ends the invocation: nothing follows a create-repository
\* status other than 201/202 or a file-upload status other than 200/201.
C6_SequentialAndTerminal ==
    /\ \A i \in 1..(Len(calls) - 1) : CallSucceeded(calls[i])
    /\ (calls # <<>> /\ ~CallSucceeded(calls[Len(calls)])) => pc = "done"

C6_Witness ==
    /\ pc = "done"
    /\ Len(calls) = 2
    /\ calls[2].kind = "create"
    /\ calls[2].status = 422
    /\ outcome.kind = "RepositoryCreationFailed"

\* C7: the create-repository call goes to the org-scoped endpoint only when
\* the caller gave an organization; without one it goes to the user-scoped
\* endpoint whatever the environment holds.
C7_OrgEndpointOnlyOnArgument ==
    \A i \in 1..Len(calls) :
        (calls[i].kind = "create" /\ calls[i].url.scope = "orgs")
            => (orgArg.some /\ Len(orgArg.val) > 0)

\* C8: at most one completion call and one create-repository call, each path
\* uploaded at most once; a returned result has issued one completion call,
\* then one create-repository call, then one file-upload call per entry of
\* the mapping.
C8_CallCounts ==
    /\ Count(calls, "completion") <= 1
    /\ Count(calls, "create") <= 1
    /\ \A i, j \in 1..Len(PutCalls) : i # j => PutCalls[i].path # PutCalls[j].path
    /\ outcome.kind = "Result" =>
          /\ Len(calls) = 2 + Len(files)
          /\ calls[1].kind = "completion"
          /\ calls[2].kind = "create"
          /\ \A i \in 3..Len(calls) : calls[i].kind = "put"
          /\ {PutCalls[i].path : i \in 1..Len(PutCalls)}
                = {files[i] : i \in 1..Len(files)}

C8_Witness ==
    /\ outcome.kind = "Result"
    /\ Len(files) = 2
    /\ Len(PutCalls) = 2

\* C9: every name a service call carries is non-empty and has no "/", and a
\* spec with no alphanumeric character, with no name given, resolves to the
\* timestamp placeholder.
C9_ResolvedNameWellFormed ==
    /\ \A i \in 1..Len(calls) :
          calls[i].kind \in {"completion", "create"}
              => (Len(calls[i].name) > 0 /\ ~HasSeparator(calls[i].name))
    /\ (pc # "idle" /\ (~nameArg.some \/ Len(nameArg.val) = 0) /\ NoAlnum(spec))
          => \E now \in Clock : name = Fallback(now)

C9_Witness ==
    /\ Len(calls) = 2
    /\ nameArg = Some(<<>>)
    /\ spec = <<" ", "/">>
    /\ calls[2].kind = "create"
    /\ \E now \in Clock : calls[2].name = Fallback(now)

\* C10: the files are uploaded in the mapping's order; when the k-th upload
\* reports a non-success status the invocation fails with FileUploadFailed
\* naming that path, the first k-1 files stay uploaded and the repository
\* stays, no later file is attempted, and no call other than the completion,
\* the creation and the uploads is ever issued.
C10_OrderedUploadsNoRollback ==
    /\ \A i \in 1..Len(calls) : calls[i].kind \in {"completion", "create", "put"}
    /\ Len(PutCalls) <= Len(files)
    /\ PutPaths = SubSeq(files, 1, Len(PutCalls))
    /\ outcome.kind = "FileUploadFailed" =>
          LET k == Len(PutCalls) IN
          /\ k >= 1
          /\ outcome.detail = files[k]
          /\ calls[Len(calls)] = PutCalls[k]
          /\ PutCalls[k].status \notin {200, 201}
          /\ repoCreated
          /\ repoFiles = SubSeq(files, 1, k - 1)

C10_Witness ==
    /\ outcome.kind = "FileUploadFailed"
    /\ Len(PutCalls) = 2
    /\ repoFiles = <<files[1]>>
    /\ PutCalls[2].status = 202

====
